---- MODULE Spec2Model ----
(***************************************************************************)
(* Model of the Persona webhook intake (user/views/persona_webhook_view.py) *)
(* PersonaWebhookView: signature check, payload extraction, upsert of the   *)
(* UserVerification row, notification and risk scoring; and of the feed     *)
(* refresh signal handlers (feed/signals/purchase_signals.py).              *)
(*                                                                          *)
(* Spec and SeqSpec run the webhook, ExtractSpec the payload extraction on  *)
(* a range of JSON trees, FeedSpec the signal handlers; each leaves the     *)
(* variables of the others as they start.                                   *)
(*                                                                          *)
(* Strings that the code takes apart (the Persona-Signature header, the     *)
(* digest, the timestamp) are sequences of one-character strings.  Strings  *)
(* that the code only compares (statuses, names, ids) are TLA+ strings.     *)
(* Python/JSON values are tagged records: None, Str, Num, Obj, Arr.         *)
(***************************************************************************)
EXTENDS Integers, Sequences, FiniteSets, Bags, TLC

VARIABLES
    pc,             \* pc[r]: where request r stands in PersonaWebhookView.post
    hdr,            \* hdr[r]: the Persona-Signature header of request r
    body,           \* body[r]: the raw body of request r
    resp,           \* resp[r]: the Response returned for r (NoResp until then)
    inst,           \* inst[r]: the user_verification instance held by r
    db,             \* the UserVerification table: a set of rows
    notifications,  \* the Notification table: a bag of rows
    riskCalls,      \* riskCalls[u]: calls of events_api.track_account for user u
    exc,            \* exc[r]: the exception post caught for r ("" for none)
    log,            \* number of logger.error entries written
    lastUpsert,     \* history: lastUpsert[u] = values of the update_or_create
                    \* applied last for user u (NoRow when there was none)
    tree,           \* the parsed JSON tree handed to the payload extraction
    extracted,      \* what the extraction of _process_payload gave for tree
    feedEntries,    \* the FeedEntry table: a set of rows
    table,          \* Purchase and GrantApplication rows as the connection sees them
    durable,        \* Purchase and GrantApplication rows that are committed
    conn,           \* the connection: "auto" (autocommit, no atomic block),
                    \* "atomic" (in an atomic block of the caller), "delete"
                    \* (in the atomic block of a delete() called in autocommit)
    pending,        \* connection.run_on_commit: the callbacks registered
    queue,          \* the task queue: a bag of tasks handed to apply_async
    feedLog,        \* number of logger.error entries of the signal handlers
    ops,            \* number of saves and deletes so far
    last            \* history: the signal handler that ran last, its instance
                    \* and how it ended; or the commit or rollback that came
                    \* after it, with the callbacks it ran or dropped

webhookVars ==
    <<pc, hdr, body, resp, inst, db, notifications, riskCalls, exc, log, lastUpsert>>

extractVars == <<tree, extracted>>

feedVars == <<feedEntries, table, durable, conn, pending, queue, feedLog, ops, last>>

vars == <<pc, hdr, body, resp, inst, db, notifications, riskCalls, exc, log, lastUpsert,
          tree, extracted,
          feedEntries, table, durable, conn, pending, queue, feedLog, ops, last>>

(***************************************************************************)
(* Bounds                                                                   *)
(***************************************************************************)
\* Number of requests that arrive (each handled by its own worker).
NumReq == 2

\* Number of saves and deletes of Purchase and GrantApplication rows.
MaxOps == 2

Reqs == 1..NumReq

(***************************************************************************)
(* Python / JSON values                                                     *)
(***************************************************************************)
None == [k |-> "null"]
Str(s) == [k |-> "str", s |-> s]
Num(n) == [k |-> "num", n |-> n]
Obj(m) == [k |-> "obj", m |-> m]
Arr(a) == [k |-> "arr", a |-> a]

(***************************************************************************)
(* Character strings and str.split                                          *)
(***************************************************************************)
\* Index of the first occurrence of character c in s, 0 when there is none.
Find(s, c) ==
    IF \E i \in 1..Len(s) : s[i] = c
    THEN CHOOSE i \in 1..Len(s) : s[i] = c /\ \A j \in 1..(i - 1) : s[j] # c
    ELSE 0

\* str.split(sep) for a one-character separator: always at least one part.
RECURSIVE Split(_, _)
Split(s, c) ==
    LET i == Find(s, c)
    IN  IF i = 0 THEN <<s>>
        ELSE <<SubSeq(s, 1, i - 1)>> \o Split(SubSeq(s, i + 1, Len(s)), c)

\* The characters of the model; everything but the last is ASCII.
Alphabet == <<"0", "1", "2", "3", "4", "5", "6", "7", "8", "9", "a", "b", "c",
              "d", "e", "f", ".", "A", "B", "C", "D", "E", "F", "G", "H", "I",
              "J", "K", "L", "M", "t", "v", "x", "=", ",", "S">>

NonAsciiChar == "U00E9"

IsAscii(s) == \A i \in 1..Len(s) : s[i] # NonAsciiChar

HexDigits == <<"0", "1", "2", "3", "4", "5", "6", "7", "8", "9", "a", "b", "c",
               "d", "e", "f">>

CharIndex(c) == CHOOSE i \in 1..Len(Alphabet) : Alphabet[i] = c

\* Two hex digits for one character.
HexOfChar(c) ==
    LET i == CharIndex(c)
    IN  <<HexDigits[(i \div 16) + 1], HexDigits[(i % 16) + 1]>>

RECURSIVE HexOf(_)
HexOf(s) == IF s = <<>> THEN <<>> ELSE HexOfChar(Head(s)) \o HexOf(Tail(s))

(***************************************************************************)
(* Request bodies.  A body is its raw bytes: text (a short tag standing for *)
(* the byte string) and utf8 (whether the bytes decode as UTF-8).           *)
(***************************************************************************)
Body(text, utf8) == [text |-> text, utf8 |-> utf8]

\* The JSON document Persona sends, with the five consumed fields; a field
\* given as Absent is left out of the document.
Absent == [k |-> "absent"]

Fields(m) == [f \in {g \in DOMAIN m : m[g] # Absent} |-> m[f]]

Doc(ref, st, fn, ln, inq) ==
    LET attributes == Obj(Fields(("status" :> st) @@ ("reference-id" :> ref)
                                 @@ ("name-first" :> fn) @@ ("name-last" :> ln)))
        inquiry == Obj(Fields(("id" :> inq) @@ ("attributes" :> attributes)))
    IN  Obj("data" :> Obj("attributes" :> Obj("payload" :> Obj("data" :> inquiry))))

NotJson == [k |-> "notjson"]

\* json.loads of the decoded text: the document each body text stands for.
JsonLoads(text) ==
    CASE text = <<"A">> ->
            Doc(Str("1"), Str("approved"), Str("Ada"), Str("Lovelace"), Str("inq_1"))
      [] text = <<"B">> ->
            Doc(Str("1"), Str("declined"), Str("Ada"), Str("Lovelace"), Str("inq_1"))
      [] text = <<"C">> ->
            Doc(Str("1"), Str("failed"), Str("Ada"), Str("Lovelace"), Str("inq_1"))
      [] text = <<"D">> ->
            Doc(Str("1"), Str("marked-for-review"), Str("Ada"), Str("Lovelace"), Str("inq_1"))
      [] text = <<"E">> ->
            Doc(Str("1"), Str("expired"), Str("Ada"), Str("Lovelace"), Str("inq_1"))
      [] text = <<"F">> ->
            Doc(Str("1"), Absent, Str("Ada"), Str("Lovelace"), Str("inq_1"))
      [] text = <<"G">> ->
            Doc(Str("2"), Str("APPROVED"), Str("Grace"), Absent, Str("inq_2"))
      [] text = <<"J">> ->
            Doc(Absent, Str("approved"), Str("Ada"), Str("Lovelace"), Str("inq_1"))
      [] text = <<"K">> ->
            Doc(Str("9"), Str("approved"), Str("Ada"), Str("Lovelace"), Str("inq_1"))
      [] text = <<"M">> ->
            Obj("data" :> Str("oops"))
      [] OTHER -> NotJson

(***************************************************************************)
(* Signature                                                                *)
(***************************************************************************)
\* settings.PERSONA_WEBHOOK_SECRET
PERSONA_WEBHOOK_SECRET == <<"S">>

\* hmac.new(key, t + "." + body, sha256).hexdigest(): HMAC-SHA256 taken as
\* collision free, so the digest is an injective hex encoding of key and
\* message.
create_digest(key, t, text) == HexOf(key \o t \o <<".">> \o text)

\* A header: absent (headers.get returns None) or a character string.
NoHeader == [present |-> FALSE, value |-> <<>>]
Header(s) == [present |-> TRUE, value |-> s]

\* Faulty variant: `if persona_signature is None` (an empty header passes).
HeaderMissing_NoneOnly(h) == ~h.present

\* `not persona_signature`: None or the empty string.
HeaderMissing(h) == ~h.present \/ h.value = <<>>

\* The list comprehension of _validate_signature: value.split("=")[1] for
\* each comma-separated part.  IndexError when a part holds no "=".
SignatureParts(s) == Split(s, ",")

PartValues(s) ==
    LET parts == SignatureParts(s)
    IN  [i \in 1..Len(parts) |-> Split(parts[i], "=")]

\* _validate_signature: "true", "false", or the exception it raises:
\* IndexError ([1] of a part without "="), ValueError (unpacking other than
\* two values into t, v1), UnicodeDecodeError (request.body.decode),
\* TypeError (hmac.compare_digest on a non-ASCII str).
_validate_signature(h, b) ==
    LET vals == PartValues(h.value)
    IN  IF \E i \in 1..Len(vals) : Len(vals[i]) < 2 THEN "IndexError"
        ELSE IF Len(vals) # 2 THEN "ValueError"
        ELSE IF ~b.utf8 THEN "UnicodeDecodeError"
        ELSE LET t == vals[1][2]
                 v1 == vals[2][2]
                 computed_digest == create_digest(PERSONA_WEBHOOK_SECRET, t, b.text)
             IN  IF ~IsAscii(v1) THEN "TypeError"
                 ELSE IF v1 = computed_digest THEN "true" ELSE "false"

(***************************************************************************)
(* Payload extraction                                                       *)
(***************************************************************************)
\* data[key] succeeds only on a dict holding the key; on a dict without it
\* Python raises KeyError, on str, list, number or None TypeError.
Subscriptable(data, key) == data.k = "obj" /\ key \in DOMAIN data.m

\* keys is the dotted path after keys.split(".").
RECURSIVE _get_nested_attr(_, _, _)
_get_nested_attr(data, keys, default) ==
    IF keys = <<>> THEN data
    ELSE IF Subscriptable(data, Head(keys))
         THEN _get_nested_attr(data.m[Head(keys)], Tail(keys), default)
         ELSE default

AttributesPath == <<"data", "attributes", "payload", "data", "attributes">>
StatusPath == AttributesPath \o <<"status">>
ReferenceIdPath == AttributesPath \o <<"reference-id">>
NameFirstPath == AttributesPath \o <<"name-first">>
NameLastPath == AttributesPath \o <<"name-last">>
InquiryIdPath == <<"data", "attributes", "payload", "data", "id">>

\* str.lower() on the status strings of the model.
Lower(s) ==
    CASE s = "APPROVED" -> "approved"
      [] OTHER -> s

\* .lower() exists on str only: AttributeError on None and on any other value.
LowerRaises(v) == v.k # "str"

\* The if/elif chain of _process_payload.
StatusOf(persona_status) ==
    CASE persona_status = "approved" -> "APPROVED"
      [] persona_status = "declined" -> "DECLINED"
      [] persona_status = "failed" -> "FAILED"
      [] persona_status = "marked-for-review" -> "MARKED_FOR_REVIEW"
      [] OTHER -> "PENDING"

\* The values _process_payload reads from the parsed document (the status
\* lookup is read only where .lower() does not raise).
Extract(data) ==
    [status |-> StatusOf(Lower(_get_nested_attr(data, StatusPath, None).s)),
     reference_id |-> _get_nested_attr(data, ReferenceIdPath, None),
     first_name |-> _get_nested_attr(data, NameFirstPath, None),
     last_name |-> _get_nested_attr(data, NameLastPath, None),
     inquiry_id |-> _get_nested_attr(data, InquiryIdPath, None)]

\* The defaults dict handed to update_or_create.
Defaults(ex) ==
    [first_name |-> ex.first_name,
     last_name |-> ex.last_name,
     verified_by |-> "PERSONA",
     external_id |-> ex.inquiry_id,
     status |-> ex.status]

(***************************************************************************)
(* The store: UserVerification rows, one-to-one with User                   *)
(***************************************************************************)
\* The users that exist.
Users == {1, 2}

NoUser == 0

\* The user id a reference id stands for; NoUser when it is None or no number.
UserIdOf(ref) ==
    CASE ref = Str("1") -> 1
      [] ref = Str("2") -> 2
      [] ref = Str("9") -> 9
      [] ref.k = "num" -> ref.n
      [] OTHER -> NoUser

Row(pk, user_id, d) ==
    [pk |-> pk, user_id |-> user_id, first_name |-> d.first_name,
     last_name |-> d.last_name, verified_by |-> d.verified_by,
     external_id |-> d.external_id, status |-> d.status]

ValuesOf(row) ==
    [first_name |-> row.first_name, last_name |-> row.last_name,
     verified_by |-> row.verified_by, external_id |-> row.external_id,
     status |-> row.status]

NoRow == [pk |-> 0]

RowsFor(store, user_id) == {row \in store : row.user_id = user_id}

NewPk(store) ==
    IF store = {} THEN 1
    ELSE 1 + (CHOOSE n \in {row.pk : row \in store} :
                 \A row \in store : row.pk <= n)

\* Faulty variant: user_id is a plain foreign key, not unique.
CanInsert_NotUnique(store, user_id) == user_id \in Users

\* What the table accepts on INSERT: the user exists (foreign key, not null)
\* and holds no row yet (unique user_id).
CanInsert(store, user_id) ==
    user_id \in Users /\ RowsFor(store, user_id) = {}

\* UPDATE ... WHERE pk = row.pk, all columns (Model.save of a fetched row).
UpdateRow(store, row) ==
    {IF old.pk = row.pk THEN row ELSE old : old \in store}

(***************************************************************************)
(* update_or_create(user_id=reference_id, defaults=...)                     *)
(***************************************************************************)
\* Faulty variant: get_or_create in place of update_or_create (the row
\* found is returned as it is).
UpdatedRow_NoUpdate(store, user_id, d) ==
    CHOOSE row \in RowsFor(store, user_id) : TRUE

\* Faulty variant: "status" left out of the defaults applied to a row found.
UpdatedRow_KeepStatus(store, user_id, d) ==
    LET old == CHOOSE row \in RowsFor(store, user_id) : TRUE
    IN  Row(old.pk, user_id, [d EXCEPT !.status = old.status])

\* The row found by get(user_id=...) with the defaults set on it and saved,
\* inside the atomic block that holds the row lock.
UpdatedRow(store, user_id, d) ==
    Row((CHOOSE row \in RowsFor(store, user_id) : TRUE).pk, user_id, d)

\* The row create(user_id=..., **defaults) inserts.
CreatedRow(store, user_id, d) == Row(NewPk(store), user_id, d)

\* get() returns one row: not DoesNotExist, not MultipleObjectsReturned.
GetFinds(store, user_id) == Cardinality(RowsFor(store, user_id)) = 1

\* get() raises MultipleObjectsReturned.
GetAmbiguous(store, user_id) == Cardinality(RowsFor(store, user_id)) > 1

(***************************************************************************)
(* Requests                                                                 *)
(***************************************************************************)
NoResp == [status |-> 0, message |-> ""]
Resp200 == [status |-> 200, message |-> "Webhook successfully processed"]
Resp401 == [status |-> 401, message |-> "Unauthorized"]
Resp500 == [status |-> 500, message |-> "Failed to process webhook"]

T1 == <<"1">>
T2 == <<"2">>

\* "t=<t>,v1=<digest>"
SignatureHeader(t, digest) ==
    Header(<<"t", "=">> \o t \o <<",", "v", "1", "=">> \o digest)

\* The header Persona sends for body b at time t.
Signed(t, b) == SignatureHeader(t, create_digest(PERSONA_WEBHOOK_SECRET, t, b.text))

BodyA == Body(<<"A">>, TRUE)
BodyB == Body(<<"B">>, TRUE)

\* Bodies that decode as UTF-8: the documents of JsonLoads and one text
\* (H) that is no JSON.
Utf8Bodies ==
    {Body(<<c>>, TRUE) : c \in {"A", "B", "C", "D", "E", "F", "G", "H", "J", "K", "M"}}

\* Bytes that are no UTF-8.
BinaryBody == Body(<<"I">>, FALSE)

WrongDigest == <<"0", "0">>

\* Headers that do not have the shape t=..,v1=..
MalformedHeaders ==
    {Header(<<"v", "1", "=">> \o create_digest(PERSONA_WEBHOOK_SECRET, T1, BodyA.text)),
     Header(<<"x">>),
     Header(<<"t", ",", "v", "1", "=">> \o WrongDigest),
     Header(<<"t", "=", "1", ",", "v", "1", "=">> \o WrongDigest \o <<",", "x", "=", "1">>)}

\* The requests that arrive: [hdr, body].
Requests ==
    {[hdr |-> Signed(T1, b), body |-> b] : b \in Utf8Bodies}
    \cup {[hdr |-> h, body |-> BodyA] : h \in {NoHeader, Header(<<>>)}}
    \cup {[hdr |-> h, body |-> BodyA] : h \in MalformedHeaders}
    \cup {[hdr |-> Signed(T1, BodyA), body |-> BodyB],
          [hdr |-> SignatureHeader(T2, create_digest(PERSONA_WEBHOOK_SECRET, T1, BodyA.text)),
           body |-> BodyA],
          [hdr |-> SignatureHeader(T1, WrongDigest), body |-> BodyA],
          [hdr |-> SignatureHeader(T1, <<NonAsciiChar>>), body |-> BodyA],
          [hdr |-> Header(<<"v", "1", "=">>
                          \o create_digest(PERSONA_WEBHOOK_SECRET, T1, BodyA.text)
                          \o <<",", "t", "=", "1">>),
           body |-> BodyA],
          [hdr |-> Signed(T1, BodyA), body |-> BinaryBody]}

\* The values request r asks to store, and for which user.
Payload(r) == Extract(JsonLoads(body[r].text))
Subject(r) == UserIdOf(Payload(r).reference_id)

(***************************************************************************)
(* PersonaWebhookView.post, step by step                                    *)
(***************************************************************************)
\* `except Exception as e` of post: log, answer 500.
Except(r, e) ==
    /\ pc' = [pc EXCEPT ![r] = "done"]
    /\ resp' = [resp EXCEPT ![r] = Resp500]
    /\ exc' = [exc EXCEPT ![r] = e]
    /\ log' = log + 1

\* Faulty variant: the handler runs in one transaction that the exception
\* rolls back.
AfterExcept_Rollback(store, user_verification) ==
    {row \in store : row.pk # user_verification.pk}

\* The store after post caught an exception: the writes made before it stay
\* (each was committed when made; the handler undoes nothing).
AfterExcept(store, user_verification) == store

Unauthorized(r) ==
    /\ pc' = [pc EXCEPT ![r] = "done"]
    /\ resp' = [resp EXCEPT ![r] = Resp401]
    /\ UNCHANGED <<exc, log>>

\* The header check and _validate_signature: "unauthorized", "ok", or the
\* exception raised.
Authenticate(h, b) ==
    IF HeaderMissing(h) THEN "unauthorized"
    ELSE LET v == _validate_signature(h, b)
         IN  IF v = "false" THEN "unauthorized"
             ELSE IF v = "true" THEN "ok" ELSE v

\* What json.loads and the status lookup of _process_payload raise ("" when
\* nothing): ValueError for a body that is no JSON, AttributeError for
\* .lower() on a value that is no str.
PayloadRaises(b) ==
    LET data == JsonLoads(b.text)
    IN  IF data = NotJson THEN "ValueError"
        ELSE IF LowerRaises(_get_nested_attr(data, StatusPath, None))
        THEN "AttributeError"
        ELSE ""

\* The row update_or_create writes for r when get() found the row.
ApplyUpdate(r, user_id, d) ==
    LET row == UpdatedRow(db, user_id, d)
    IN  /\ db' = UpdateRow(db, row)
        /\ inst' = [inst EXCEPT ![r] = row]
        /\ lastUpsert' = [lastUpsert EXCEPT ![user_id] = d]
        /\ pc' = [pc EXCEPT ![r] = "save"]
        /\ UNCHANGED <<resp, exc, log>>

\* The request arrives; post runs up to its first write to the store:
\* header check, _validate_signature, json.loads, the five lookups, and the
\* get() of update_or_create with, when the row exists, the update under the
\* row lock.  storeUp: whether the store answers.  Requests are numbered in
\* the order they arrive.
Post(r) ==
    /\ pc[r] = "idle"
    /\ \A q \in 1..(r - 1) : pc[q] # "idle"
    /\ \E q \in Requests, storeUp \in BOOLEAN :
        LET auth == Authenticate(q.hdr, q.body)
            ex == Extract(JsonLoads(q.body.text))
            user_id == UserIdOf(ex.reference_id)
        IN  /\ hdr' = [hdr EXCEPT ![r] = q.hdr]
            /\ body' = [body EXCEPT ![r] = q.body]
            /\ UNCHANGED <<notifications, riskCalls>>
            /\ IF auth = "unauthorized"
               THEN Unauthorized(r) /\ UNCHANGED <<inst, db, lastUpsert>>
               ELSE IF auth # "ok"
               THEN Except(r, auth) /\ UNCHANGED <<inst, db, lastUpsert>>
               ELSE IF PayloadRaises(q.body) # ""
               THEN Except(r, PayloadRaises(q.body)) /\ UNCHANGED <<inst, db, lastUpsert>>
               ELSE IF ~storeUp
               THEN Except(r, "OperationalError") /\ UNCHANGED <<inst, db, lastUpsert>>
               ELSE IF user_id \notin Users
               THEN Except(r, "IntegrityError") /\ UNCHANGED <<inst, db, lastUpsert>>
               ELSE IF GetAmbiguous(db, user_id)
               THEN Except(r, "MultipleObjectsReturned") /\ UNCHANGED <<inst, db, lastUpsert>>
               ELSE IF GetFinds(db, user_id)
               THEN ApplyUpdate(r, user_id, Defaults(ex))
               ELSE /\ pc' = [pc EXCEPT ![r] = "create"]
                    /\ UNCHANGED <<resp, exc, log, inst, db, lastUpsert>>

\* update_or_create after get() raised DoesNotExist: create(); on
\* IntegrityError get() again and update.
UocCreate(r) ==
    /\ pc[r] = "create"
    /\ \E storeUp \in BOOLEAN :
        LET d == Defaults(Payload(r))
            user_id == Subject(r)
        IN  /\ UNCHANGED <<hdr, body, notifications, riskCalls>>
            /\ IF ~storeUp
               THEN Except(r, "OperationalError") /\ UNCHANGED <<inst, db, lastUpsert>>
               ELSE IF CanInsert(db, user_id)
               THEN LET row == CreatedRow(db, user_id, d)
                    IN  /\ db' = db \cup {row}
                        /\ inst' = [inst EXCEPT ![r] = row]
                        /\ lastUpsert' = [lastUpsert EXCEPT ![user_id] = d]
                        /\ pc' = [pc EXCEPT ![r] = "save"]
                        /\ UNCHANGED <<resp, exc, log>>
               ELSE IF GetFinds(db, user_id)
               THEN ApplyUpdate(r, user_id, d)
               ELSE Except(r, "IntegrityError") /\ UNCHANGED <<inst, db, lastUpsert>>

\* Model.save() of an instance that has a pk: UPDATE by pk, INSERT when no
\* row has that pk.
SaveRow(store, row) ==
    IF \E old \in store : old.pk = row.pk
    THEN UpdateRow(store, row)
    ELSE store \cup {row}

\* user_verification.save()
Save(r) ==
    /\ pc[r] = "save"
    /\ \E storeUp \in BOOLEAN :
        /\ UNCHANGED <<hdr, body, inst, notifications, riskCalls, lastUpsert>>
        /\ IF storeUp
           THEN /\ db' = SaveRow(db, inst[r])
                /\ pc' = [pc EXCEPT ![r] = "notify"]
                /\ UNCHANGED <<resp, exc, log>>
           ELSE /\ Except(r, "OperationalError")
                /\ db' = AfterExcept(db, inst[r])

\* Faulty variant: the notification does not carry the record's status.
NotificationFor_NoStatus(user_verification, sent) ==
    [action_user |-> user_verification.user_id,
     recipient |-> user_verification.user_id,
     status |-> "PENDING",
     item |-> user_verification.pk,
     notification_type |-> "IDENTITY_VERIFICATION_UPDATED",
     sent |-> sent]

\* The Notification row _create_notification creates.
NotificationFor(user_verification, sent) ==
    [action_user |-> user_verification.user_id,
     recipient |-> user_verification.user_id,
     status |-> user_verification.status,
     item |-> user_verification.pk,
     notification_type |-> "IDENTITY_VERIFICATION_UPDATED",
     sent |-> sent]

\* _create_notification: Notification.objects.create, then
\* send_notification; either may raise.
CreateNotification(r) ==
    /\ pc[r] = "notify"
    /\ \E outcome \in {"sent", "create_raises", "send_raises"} :
        /\ UNCHANGED <<hdr, body, inst, riskCalls, lastUpsert>>
        /\ notifications' =
              IF outcome = "create_raises" THEN notifications
              ELSE notifications (+) SetToBag({NotificationFor(inst[r], outcome = "sent")})
        /\ IF outcome = "sent"
           THEN /\ pc' = [pc EXCEPT ![r] = "risk"]
                /\ UNCHANGED <<resp, exc, log, db>>
           ELSE /\ Except(r, "NotificationError")
                /\ db' = AfterExcept(db, inst[r])

\* User.objects.get, events_api.track_account and update_user_risk_score;
\* the collaborator may raise.  When it does not, post returns 200.
RiskScore(r) ==
    /\ pc[r] = "risk"
    /\ \E raises \in BOOLEAN :
        /\ UNCHANGED <<hdr, body, inst, notifications, lastUpsert>>
        /\ riskCalls' = [riskCalls EXCEPT ![inst[r].user_id] = @ + 1]
        /\ IF raises
           THEN /\ Except(r, "RiskScoreError")
                /\ db' = AfterExcept(db, inst[r])
           ELSE /\ pc' = [pc EXCEPT ![r] = "done"]
                /\ resp' = [resp EXCEPT ![r] = Resp200]
                /\ UNCHANGED <<exc, log, db>>

(***************************************************************************)
(* Specifications                                                           *)
(***************************************************************************)
\* Rows an earlier delivery left for user 1.
InitialStores ==
    {{}, {Row(1, 1, Defaults(Extract(JsonLoads(BodyB.text))))}}

\* Nothing was extracted.
NotExtracted == [raised |-> "none"]

\* The extraction on its own is not running.
ExtractIdle == tree = None /\ extracted = NotExtracted

\* No signal handler ran.
NoRun == [handler |-> "", outcome |-> ""]

\* The signal handlers are not running.
FeedIdle ==
    /\ feedEntries = {}
    /\ table = {}
    /\ durable = {}
    /\ conn = "auto"
    /\ pending = <<>>
    /\ queue = EmptyBag
    /\ feedLog = 0
    /\ ops = 0
    /\ last = NoRun

Init ==
    /\ ExtractIdle
    /\ FeedIdle
    /\ pc = [r \in Reqs |-> "idle"]
    /\ hdr = [r \in Reqs |-> NoHeader]
    /\ body = [r \in Reqs |-> Body(<<>>, TRUE)]
    /\ resp = [r \in Reqs |-> NoResp]
    /\ inst = [r \in Reqs |-> NoRow]
    /\ db \in InitialStores
    /\ notifications = EmptyBag
    /\ riskCalls = [u \in Users |-> 0]
    /\ exc = [r \in Reqs |-> ""]
    /\ log = 0
    /\ lastUpsert = [u \in Users |-> NoRow]

\* Requests handled concurrently, one worker each.
Next ==
    \E r \in Reqs :
        \/ Post(r) /\ UNCHANGED <<extractVars, feedVars>>
        \/ UocCreate(r) /\ UNCHANGED <<extractVars, feedVars>>
        \/ Save(r) /\ UNCHANGED <<extractVars, feedVars>>
        \/ CreateNotification(r) /\ UNCHANGED <<extractVars, feedVars>>
        \/ RiskScore(r) /\ UNCHANGED <<extractVars, feedVars>>

Spec == Init /\ [][Next]_vars

\* No other request is being handled.
Alone(r) == \A q \in Reqs \ {r} : pc[q] \in {"idle", "done"}

\* Requests handled one after another.
SeqNext ==
    \E r \in Reqs :
        \/ Alone(r) /\ Post(r) /\ UNCHANGED <<extractVars, feedVars>>
        \/ Alone(r) /\ UocCreate(r) /\ UNCHANGED <<extractVars, feedVars>>
        \/ Alone(r) /\ Save(r) /\ UNCHANGED <<extractVars, feedVars>>
        \/ Alone(r) /\ CreateNotification(r) /\ UNCHANGED <<extractVars, feedVars>>
        \/ Alone(r) /\ RiskScore(r) /\ UNCHANGED <<extractVars, feedVars>>

SeqSpec == Init /\ [][SeqNext]_vars

(***************************************************************************)
(* The payload extraction of _process_payload on its own                    *)
(***************************************************************************)
\* Values a JSON document can hold where the extraction expects an object:
\* null, a string, a number, a list, an object without the key.
NonObjects == {None, Str("x"), Num(7), Arr(<<Str("x")>>), Obj(<<>>)}

\* path[1..i-1] leading to the value v: {path[1]: {path[2]: ... v}}.
RECURSIVE Nest(_, _)
Nest(path, v) ==
    IF path = <<>> THEN v ELSE Obj(Head(path) :> Nest(Tail(path), v))

\* Documents cut short: a value that is no object (or an empty one) at some
\* depth of data.attributes.payload.data.attributes, the root included.
CutTrees ==
    {Nest(SubSeq(AttributesPath, 1, depth), v) : depth \in 0..4, v \in NonObjects}

\* Whole documents, each consumed field present, null, or left out.
FieldTrees ==
    {Doc(ref, st, fn, ln, inq) :
        ref \in {Absent, Str("1")},
        st \in {Absent, None, Num(1), Str("approved"), Str("expired")},
        fn \in {Absent, Str("Ada")},
        ln \in {Absent, None, Str("Lovelace")},
        inq \in {Absent, Str("inq_1")}}

Trees == CutTrees \cup FieldTrees

\* The webhook is not running.
WebhookIdle ==
    /\ pc = [r \in Reqs |-> "idle"]
    /\ hdr = [r \in Reqs |-> NoHeader]
    /\ body = [r \in Reqs |-> Body(<<>>, TRUE)]
    /\ resp = [r \in Reqs |-> NoResp]
    /\ inst = [r \in Reqs |-> NoRow]
    /\ db = {}
    /\ notifications = EmptyBag
    /\ riskCalls = [u \in Users |-> 0]
    /\ exc = [r \in Reqs |-> ""]
    /\ log = 0
    /\ lastUpsert = [u \in Users |-> NoRow]

\* Lines 74-98 of _process_payload on the parsed document: the status
\* lookup with .lower() and the if/elif chain, then the four other lookups.
ProcessPayloadExtraction(data) ==
    LET persona_status == _get_nested_attr(data, StatusPath, None)
    IN  IF LowerRaises(persona_status)
        THEN [raised |-> "AttributeError"]
        ELSE [raised |-> "",
              persona_status |-> Lower(persona_status.s),
              status |-> StatusOf(Lower(persona_status.s)),
              reference_id |-> _get_nested_attr(data, ReferenceIdPath, None),
              first_name |-> _get_nested_attr(data, NameFirstPath, None),
              last_name |-> _get_nested_attr(data, NameLastPath, None),
              inquiry_id |-> _get_nested_attr(data, InquiryIdPath, None)]

\* The extraction runs on the tree.
ExtractPayload ==
    /\ extracted = NotExtracted
    /\ extracted' = ProcessPayloadExtraction(tree)
    /\ UNCHANGED tree
    /\ UNCHANGED <<webhookVars, feedVars>>

\* The next document arrives.
NextPayload ==
    /\ extracted # NotExtracted
    /\ tree' \in Trees
    /\ extracted' = NotExtracted
    /\ UNCHANGED <<webhookVars, feedVars>>

ExtractInit ==
    /\ WebhookIdle
    /\ FeedIdle
    /\ tree \in Trees
    /\ extracted = NotExtracted

ExtractNext == ExtractPayload \/ NextPayload

ExtractSpec == ExtractInit /\ [][ExtractNext]_vars

(***************************************************************************)
(* Feed refresh signal handlers (feed/signals/purchase_signals.py)          *)
(***************************************************************************)
\* ContentType.objects.get_for_model(ResearchhubPost), and two other types.
ResearchhubPostType == "researchhubpost"
PaperType == "paper"
CommentType == "comment"

\* grant.unified_document is None.
NoDocument == 0

FeedEntry(id, content_type, object_id, unified_document) ==
    [id |-> id, content_type |-> content_type, object_id |-> object_id,
     unified_document |-> unified_document]

\* The feed rows there can be: two for paper 1, two for post 1 (the post of
\* unified document 1), and a comment on unified document 1.
AllFeedEntries ==
    {FeedEntry(1, PaperType, 1, 3),
     FeedEntry(2, PaperType, 1, 3),
     FeedEntry(3, ResearchhubPostType, 1, 1),
     FeedEntry(4, ResearchhubPostType, 1, 1),
     FeedEntry(5, CommentType, 7, 1)}

Purchase(id, content_type, object_id) ==
    [model |-> "Purchase", id |-> id, content_type |-> content_type,
     object_id |-> object_id]

\* Purchases of paper 1, of post 1, and of a paper without feed rows.
Purchases ==
    {Purchase(1, PaperType, 1), Purchase(2, ResearchhubPostType, 1),
     Purchase(3, PaperType, 9)}

GrantApplication(id, unified_document) ==
    [model |-> "GrantApplication", id |-> id,
     grant |-> [unified_document |-> unified_document]]

\* Applications to the grant of document 1, to a grant whose document has no
\* feed row, and to a grant without a document.
GrantApplications ==
    {GrantApplication(1, 1), GrantApplication(2, 2), GrantApplication(3, NoDocument)}

\* The row of an instance.
RowKey(instance) == [model |-> instance.model, id |-> instance.id]

\* partial(refresh_feed_entry.apply_async, args=(entry.id,), priority=1)
Task(entry_id) ==
    [task |-> "refresh_feed_entry", args |-> <<entry_id>>, priority |-> 1]

\* [partial(...) for entry in feed_entries]: one task per row of the queryset.
RECURSIVE TasksFor(_)
TasksFor(feed_entries) ==
    IF feed_entries = {} THEN <<>>
    ELSE LET entry == CHOOSE e \in feed_entries :
                          \A other \in feed_entries : e.id <= other.id
         IN  <<Task(entry.id)>> \o TasksFor(feed_entries \ {entry})

\* Faulty variant: the filter leaves out content_type.
PurchaseFeedEntries_ObjectOnly(entries, instance) ==
    {e \in entries : e.object_id = instance.object_id}

\* FeedEntry.objects.filter(content_type=instance.content_type,
\*                          object_id=instance.object_id)
PurchaseFeedEntries(entries, instance) ==
    {e \in entries : /\ e.content_type = instance.content_type
                     /\ e.object_id = instance.object_id}

\* FeedEntry.objects.filter(unified_document=unified_document,
\*                          content_type=post_content_type)
GrantFeedEntries(entries, unified_document) ==
    {e \in entries : /\ e.unified_document = unified_document
                     /\ e.content_type = ResearchhubPostType}

\* How a handler ends: it returned early, it raised (and the except clause
\* logged), or it handed its tasks to transaction.on_commit.
Returned == [outcome |-> "returned", tasks |-> <<>>, at |-> ""]
Raised(at) == [outcome |-> "raised", tasks |-> <<>>, at |-> at]
Scheduled(tasks) == [outcome |-> "scheduled", tasks |-> tasks, at |-> ""]

\* What may raise inside a handler: the access to instance.grant and its
\* unified_document, the feed query, the call of transaction.on_commit.
PurchaseFaults == {"none", "lookup", "on_commit"}
GrantFaults == {"none", "grant", "lookup", "on_commit"}

\* post_save of Purchase.
refresh_feed_entries_on_purchase(instance, entries, fault) ==
    IF fault = "lookup" THEN Raised("lookup")
    ELSE LET feed_entries == PurchaseFeedEntries(entries, instance)
         IN  IF feed_entries = {} THEN Returned
             ELSE IF fault = "on_commit" THEN Raised("on_commit")
             ELSE Scheduled(TasksFor(feed_entries))

\* post_save of GrantApplication.
refresh_feed_entries_on_grant_application(instance, entries, fault) ==
    IF fault = "grant" THEN Raised("grant")
    ELSE LET unified_document == instance.grant.unified_document
         IN  IF unified_document = NoDocument THEN Returned
             ELSE IF fault = "lookup" THEN Raised("lookup")
             ELSE LET feed_entries == GrantFeedEntries(entries, unified_document)
                  IN  IF feed_entries = {} THEN Returned
                      ELSE IF fault = "on_commit" THEN Raised("on_commit")
                      ELSE Scheduled(TasksFor(feed_entries))

\* post_delete of GrantApplication.
refresh_feed_entries_on_grant_application_delete(instance, entries, fault) ==
    IF fault = "grant" THEN Raised("grant")
    ELSE LET unified_document == instance.grant.unified_document
         IN  IF unified_document = NoDocument THEN Returned
             ELSE IF fault = "lookup" THEN Raised("lookup")
             ELSE LET feed_entries == GrantFeedEntries(entries, unified_document)
                  IN  IF feed_entries = {} THEN Returned
                      ELSE IF fault = "on_commit" THEN Raised("on_commit")
                      ELSE Scheduled(TasksFor(feed_entries))

\* The ids of the feed rows a save or delete of the instance is to refresh.
AffectedIds(instance, entries) ==
    IF instance.model = "Purchase"
    THEN {e.id : e \in {x \in entries : /\ x.content_type = instance.content_type
                                        /\ x.object_id = instance.object_id}}
    ELSE IF instance.grant.unified_document = NoDocument THEN {}
    ELSE {e.id : e \in {x \in entries :
                           /\ x.unified_document = instance.grant.unified_document
                           /\ x.content_type = ResearchhubPostType}}

\* The callback given to on_commit: the task list built by the handler, with
\* the handler and instance it came from (history: matched, the ids of the
\* rows that matched when the signal fired).
Callback(handler, instance, tasks, entries) ==
    [tasks |-> tasks, handler |-> handler, instance |-> instance,
     matched |-> AffectedIds(instance, entries)]

\* Faulty variant: the callback runs the query when it is called.
RunCallback_Lazy(callback, entries) ==
    IF callback.handler = "refresh_feed_entries_on_purchase"
    THEN TasksFor(PurchaseFeedEntries(entries, callback.instance))
    ELSE TasksFor(GrantFeedEntries(entries, callback.instance.grant.unified_document))

\* lambda: [task() for task in tasks]: the tasks handed to apply_async.
RunCallback(callback, entries) == callback.tasks

\* apply_async for each task of a list.
RECURSIVE Enqueue(_, _)
Enqueue(q, tasks) ==
    IF tasks = <<>> THEN q
    ELSE Enqueue(q (+) SetToBag({Head(tasks)}), Tail(tasks))

\* run_and_clear_commit_hooks: the callbacks in the order registered.
RECURSIVE RunCommitHooks(_, _, _)
RunCommitHooks(q, callbacks, entries) ==
    IF callbacks = <<>> THEN q
    ELSE RunCommitHooks(Enqueue(q, RunCallback(Head(callbacks), entries)),
                        Tail(callbacks), entries)

\* transaction.on_commit(func): in an atomic block func is kept for the
\* commit; with no transaction open it is called at once.
OnCommit(inAtomic, callback) ==
    IF inAtomic
    THEN /\ pending' = Append(pending, callback)
         /\ queue' = queue
    ELSE /\ pending' = pending
         /\ queue' = Enqueue(queue, RunCallback(callback, feedEntries))

\* Faulty variant: no try/except in the handler; the exception leaves save()
\* or delete() and the caller's row mutation is lost.
AfterHandler_Propagates(result, before, after) ==
    IF result.outcome = "raised" THEN before ELSE after

\* The rows after the handler ran: `except Exception` logs and the handler
\* returns, so the mutation made before the signal stays.
AfterHandler(result, before, after) == after

\* The signal is sent: the handler runs and ends as result says.
Signal(handler, instance, result, inAtomic) ==
    /\ last' = [handler |-> handler, instance |-> instance,
                outcome |-> result.outcome, at |-> result.at]
    /\ feedLog' = IF result.outcome = "raised" THEN feedLog + 1 ELSE feedLog
    /\ IF result.outcome = "scheduled"
       THEN OnCommit(inAtomic,
                     Callback(handler, instance, result.tasks, feedEntries))
       ELSE UNCHANGED <<pending, queue>>

\* Purchase.save(): the row is written, then post_save is sent.
SavePurchase ==
    /\ conn \in {"auto", "atomic"}
    /\ ops < MaxOps
    /\ \E instance \in Purchases, fault \in PurchaseFaults :
        LET result == refresh_feed_entries_on_purchase(instance, feedEntries, fault)
        IN  /\ table' = AfterHandler(result, table, table \cup {RowKey(instance)})
            /\ durable' = IF conn = "auto" THEN table' ELSE durable
            /\ Signal("refresh_feed_entries_on_purchase", instance, result,
                      conn = "atomic")
    /\ ops' = ops + 1
    /\ UNCHANGED <<conn, feedEntries>>
    /\ UNCHANGED <<webhookVars, extractVars>>

\* GrantApplication.save(): the row is written, then post_save is sent.
SaveGrantApplication ==
    /\ conn \in {"auto", "atomic"}
    /\ ops < MaxOps
    /\ \E instance \in GrantApplications, fault \in GrantFaults :
        LET result ==
                refresh_feed_entries_on_grant_application(instance, feedEntries, fault)
        IN  /\ table' = AfterHandler(result, table, table \cup {RowKey(instance)})
            /\ durable' = IF conn = "auto" THEN table' ELSE durable
            /\ Signal("refresh_feed_entries_on_grant_application", instance, result,
                      conn = "atomic")
    /\ ops' = ops + 1
    /\ UNCHANGED <<conn, feedEntries>>
    /\ UNCHANGED <<webhookVars, extractVars>>

\* GrantApplication.delete(): delete() opens an atomic block of its own,
\* removes the row and sends post_delete inside that block.
DeleteGrantApplication ==
    /\ conn \in {"auto", "atomic"}
    /\ ops < MaxOps
    /\ \E instance \in GrantApplications, fault \in GrantFaults :
        LET result ==
                refresh_feed_entries_on_grant_application_delete(instance, feedEntries,
                                                                 fault)
        IN  /\ RowKey(instance) \in table
            /\ table' = AfterHandler(result, table, table \ {RowKey(instance)})
            /\ Signal("refresh_feed_entries_on_grant_application_delete", instance,
                      result, TRUE)
    /\ conn' = IF conn = "auto" THEN "delete" ELSE conn
    /\ ops' = ops + 1
    /\ UNCHANGED <<durable, feedEntries>>
    /\ UNCHANGED <<webhookVars, extractVars>>

\* The caller enters transaction.atomic().
Begin ==
    /\ conn = "auto"
    /\ ops < MaxOps
    /\ conn' = "atomic"
    /\ UNCHANGED <<feedEntries, table, durable, pending, queue, feedLog, ops, last>>
    /\ UNCHANGED <<webhookVars, extractVars>>

\* The atomic block ends without an exception: COMMIT, then the callbacks
\* registered with on_commit run.
Commit ==
    /\ conn \in {"atomic", "delete"}
    /\ conn' = "auto"
    /\ durable' = table
    /\ queue' = RunCommitHooks(queue, pending, feedEntries)
    /\ pending' = <<>>
    /\ last' = [handler |-> "", outcome |-> "committed", ran |-> pending,
                entries |-> feedEntries]
    /\ UNCHANGED <<feedEntries, table, feedLog, ops>>
    /\ UNCHANGED <<webhookVars, extractVars>>

\* The atomic block ends with an exception: ROLLBACK, the callbacks are
\* dropped.
Rollback ==
    /\ conn \in {"atomic", "delete"}
    /\ conn' = "auto"
    /\ table' = durable
    /\ pending' = <<>>
    /\ last' = [handler |-> "", outcome |-> "rolled_back", dropped |-> pending]
    /\ UNCHANGED <<feedEntries, durable, queue, feedLog, ops>>
    /\ UNCHANGED <<webhookVars, extractVars>>

\* The feed rows other workers add and remove meanwhile: the second row of
\* paper 1 and the second row of post 1.
ChangingFeedEntries == {e \in AllFeedEntries : e.id \in {2, 4}}

\* Another worker adds or removes a feed row.
FeedChange ==
    /\ \E e \in ChangingFeedEntries :
        feedEntries' = IF e \in feedEntries THEN feedEntries \ {e}
                       ELSE feedEntries \cup {e}
    /\ UNCHANGED <<table, durable, conn, pending, queue, feedLog, ops, last>>
    /\ UNCHANGED <<webhookVars, extractVars>>

FeedInit ==
    /\ WebhookIdle
    /\ ExtractIdle
    /\ feedEntries \in {AllFeedEntries, {}}
    /\ table = {RowKey(a) : a \in GrantApplications}
    /\ durable = table
    /\ conn = "auto"
    /\ pending = <<>>
    /\ queue = EmptyBag
    /\ feedLog = 0
    /\ ops = 0
    /\ last = NoRun

FeedNext ==
    \/ SavePurchase
    \/ SaveGrantApplication
    \/ DeleteGrantApplication
    \/ Begin
    \/ Commit
    \/ Rollback
    \/ FeedChange

FeedSpec == FeedInit /\ [][FeedNext]_vars

(***************************************************************************)
(* Properties                                                               *)
(***************************************************************************)
Handled(r) == pc[r] # "idle"

\* Request r is received in this step.
Received(r) == pc[r] = "idle" /\ pc'[r] # "idle"

\* The header reads t=<timestamp>,v1=<digest>.
IsPrefix(p, s) == Len(p) <= Len(s) /\ SubSeq(s, 1, Len(p)) = p

HasSignatureForm(h) ==
    /\ h.present
    /\ Len(Split(h.value, ",")) = 2
    /\ IsPrefix(<<"t", "=">>, Split(h.value, ",")[1])
    /\ IsPrefix(<<"v", "1", "=">>, Split(h.value, ",")[2])

TimestampIn(h) ==
    LET part == Split(h.value, ",")[1] IN SubSeq(part, 3, Len(part))

DigestIn(h) ==
    LET part == Split(h.value, ",")[2] IN SubSeq(part, 4, Len(part))

\* The digest of the header is the HMAC of timestamp "." raw body.
Authentic(h, b) ==
    /\ HasSignatureForm(h)
    /\ DigestIn(h) = create_digest(PERSONA_WEBHOOK_SECRET, TimestampIn(h), b.text)

\* No record, notification or risk-scoring call is made or changed.
NothingApplied == UNCHANGED <<db, notifications, riskCalls, inst, lastUpsert>>

\* C1: a request without a Persona-Signature header, or with an empty one,
\* is answered 401 Unauthorized in the step that receives it, and that step
\* changes no record, creates no notification and calls no risk scoring.
C1_MissingSignatureRejected ==
    [][\A r \in Reqs :
          (Received(r) /\ (~hdr'[r].present \/ hdr'[r].value = <<>>))
          => (pc'[r] = "done" /\ resp'[r] = Resp401 /\ NothingApplied)]_vars

\* Both cases of C1 happened: one request had no header, another an empty one.
C1_Witness ==
    /\ \E r \in Reqs : pc[r] = "done" /\ ~hdr[r].present /\ resp[r] = Resp401
    /\ \E r \in Reqs : pc[r] = "done" /\ hdr[r].present /\ hdr[r].value = <<>>
                       /\ resp[r] = Resp401

\* C2: a request whose header reads t=<timestamp>,v1=<digest> with a digest
\* other than the HMAC of timestamp "." raw body is answered 401, and the
\* records, notifications and risk-scoring calls stay as they were.
C2_WrongDigestRejected ==
    [][\A r \in Reqs :
          (Received(r) /\ HasSignatureForm(hdr'[r]) /\ ~Authentic(hdr'[r], body'[r]))
          => (pc'[r] = "done" /\ resp'[r] = Resp401 /\ NothingApplied)]_vars

\* C3: every request that carries a non-empty header which does not
\* authenticate is answered 401, never 500, whatever the header's shape.
C3_UnauthenticatedIs401 ==
    \A r \in Reqs :
        (Handled(r) /\ hdr[r].present /\ hdr[r].value # <<>>
         /\ ~Authentic(hdr[r], body[r]))
        => (pc[r] = "done" /\ resp[r] = Resp401)

\* C4: there is at most one VerificationRecord per subject id.
C4_OneRecordPerSubject ==
    \A row1, row2 \in db : row1.user_id = row2.user_id => row1 = row2

\* Two deliveries for the same subject race on a subject without a record:
\* both found no row, one has created it, the other is about to create.
C4_Witness ==
    \E r1, r2 \in Reqs :
        /\ r1 # r2
        /\ pc[r1] = "create"
        /\ pc[r2] \in {"save", "notify", "risk", "done"}
        /\ inst[r2] # NoRow
        /\ inst[r2].user_id = Subject(r1)
        /\ inst[r2].pk = 1 /\ Cardinality(db) = 1

\* Every request has returned.
AllDone == \A r \in Reqs : pc[r] = "done"

\* The record of user u holds exactly the values d.
RecordHolds(u, d) ==
    /\ \E row \in db : row.user_id = u /\ ValuesOf(row) = d
    /\ Cardinality(RowsFor(db, u)) = 1

\* C5: the final record holds the values of the delivery whose upsert was
\* applied last; no later write of another delivery overwrites them.
C5_LastUpsertStands ==
    (AllDone /\ \A r \in Reqs : resp[r] = Resp200)
    => \A u \in Users : lastUpsert[u] # NoRow => RecordHolds(u, lastUpsert[u])

\* The values the payload of r asks for.
Asked(r) == Defaults(Extract(JsonLoads(body'[r].text)))

\* Request r writes the store in this step (update_or_create, or save).
Writes(r) ==
    /\ pc[r] \in {"idle", "create", "save"}
    /\ pc'[r] # pc[r]
    /\ inst'[r] # NoRow

\* C6: handling a payload again right after it was applied changes nothing:
\* the subject keeps exactly one record, with the values of that payload.
C6_Idempotent ==
    [][\A r \in Reqs :
          (Writes(r) /\ lastUpsert[inst'[r].user_id] = Asked(r))
          => (db' = db /\ Cardinality(RowsFor(db', inst'[r].user_id)) = 1
              /\ \E row \in db' : row.user_id = inst'[r].user_id
                                  /\ ValuesOf(row) = Asked(r))]_vars

\* The same payload was handled twice, each time up to its save, and the
\* subject has one record.
C6_Witness ==
    \E r1, r2 \in Reqs :
        /\ r1 # r2
        /\ body[r1] = body[r2]
        /\ pc[r1] = "done" /\ pc[r2] = "done"
        /\ resp[r1] = Resp200 /\ resp[r2] = Resp200
        /\ inst[r1] = inst[r2]
        /\ db = {inst[r2]}

\* C7: deliveries handled one after another: the record of a subject holds
\* the values of the last delivery applied to it, whatever it held before.
C7_LastProcessedWins ==
    \A u \in Users : lastUpsert[u] # NoRow => RecordHolds(u, lastUpsert[u])

\* An approved record was replaced by a later declined delivery.
C7_Witness ==
    \E r1, r2 \in Reqs :
        /\ pc[r1] = "done" /\ pc[r2] = "done"
        /\ inst[r1] # NoRow /\ inst[r2] # NoRow
        /\ inst[r1].user_id = inst[r2].user_id
        /\ inst[r1].status = "APPROVED"
        /\ inst[r2].status = "DECLINED"
        /\ lastUpsert[inst[r2].user_id].status = "DECLINED"
        /\ \E row \in db : row.user_id = inst[r2].user_id /\ row.status = "DECLINED"

\* The status the specification assigns to the provider's status value: the
\* four names, compared in lower case; PENDING for any other value, an
\* absent one included.
MappedStatus(v) ==
    IF v.k # "str" THEN "PENDING"
    ELSE CASE Lower(v.s) = "approved" -> "APPROVED"
           [] Lower(v.s) = "declined" -> "DECLINED"
           [] Lower(v.s) = "failed" -> "FAILED"
           [] Lower(v.s) = "marked-for-review" -> "MARKED_FOR_REVIEW"
           [] OTHER -> "PENDING"

\* The request is signed by Persona and its body is a JSON document that
\* holds the attributes object of the inquiry.
SignedJson(r) ==
    /\ Handled(r)
    /\ Authentic(hdr[r], body[r])
    /\ body[r].utf8
    /\ JsonLoads(body[r].text) # NotJson
    /\ _get_nested_attr(JsonLoads(body[r].text), AttributesPath, None).k = "obj"

StatusField(r) == _get_nested_attr(JsonLoads(body[r].text), StatusPath, None)

ReferenceField(r) == _get_nested_attr(JsonLoads(body[r].text), ReferenceIdPath, None)

\* C8: the status of an authenticated payload maps to APPROVED, DECLINED,
\* FAILED, MARKED_FOR_REVIEW by name and to PENDING otherwise, an absent
\* status included; in that default case the mapping raises no error and
\* the record of an existing subject is upserted, with status PENDING.
C8_StatusMapping ==
    \A r \in Reqs :
        SignedJson(r) =>
            /\ exc[r] # "AttributeError"
            /\ inst[r] # NoRow => inst[r].status = MappedStatus(StatusField(r))
            /\ (/\ pc[r] = "done"
                /\ UserIdOf(ReferenceField(r)) \in Users
                /\ exc[r] \notin {"OperationalError"})
               => inst[r] # NoRow

\* C9: every request is answered 401 exactly when its signature header is
\* missing or invalid, 500 exactly when the signature is valid and a later
\* step raises, 200 exactly when the signature is valid and no step
\* raises; a signed body that is no JSON is answered 500 and touches no
\* record.
C9_ThreeAnswers ==
    \A r \in Reqs :
        pc[r] = "done" =>
            /\ resp[r] \in {Resp200, Resp401, Resp500}
            /\ resp[r] = Resp401 <=> ~Authentic(hdr[r], body[r])
            /\ resp[r] = Resp500 <=> (Authentic(hdr[r], body[r]) /\ exc[r] # "")
            /\ resp[r] = Resp200 <=> (Authentic(hdr[r], body[r]) /\ exc[r] = "")
            /\ (Authentic(hdr[r], body[r]) /\ JsonLoads(body[r].text) = NotJson)
               => (resp[r] = Resp500 /\ inst[r] = NoRow)

\* Request r ends in this step because the notification or the risk scoring
\* raised.
SideEffectFails(r) ==
    /\ pc[r] \in {"notify", "risk"}
    /\ pc'[r] = "done"
    /\ resp'[r] = Resp500

\* C10: when the notification or the risk scoring raises after the upsert,
\* the request ends with the store as it was: the record of the subject is
\* there, with the values of that delivery.
C10_UpsertNotRolledBack ==
    [][\A r \in Reqs :
          SideEffectFails(r)
          => (db' = db
              /\ \E row \in db' : row.user_id = inst[r].user_id
                                  /\ ValuesOf(row) = Asked(r))]_vars

\* A request ended 500 on its notification or risk scoring, and its record
\* is in the store.
C10_Witness ==
    \E r \in Reqs :
        /\ pc[r] = "done"
        /\ resp[r] = Resp500
        /\ exc[r] \in {"NotificationError", "RiskScoreError"}
        /\ inst[r] \in db

\* C11: a failure of the notification or of the risk scoring after the
\* upsert does not fail the acknowledgment: the request is answered 200.
C11_SideEffectFailureAnswered200 ==
    \A r \in Reqs :
        (pc[r] = "done" /\ inst[r] # NoRow
         /\ exc[r] \in {"NotificationError", "RiskScoreError"})
        => resp[r] = Resp200

\* Request r returns in this step.
Returns(r) == pc[r] # "done" /\ pc'[r] = "done"

\* C13: a request answered 401 or 500 writes a log entry for the failure in
\* the step that produces the response.
C13_FailureLogged ==
    [][\A r \in Reqs :
          (Returns(r) /\ resp'[r] \in {Resp401, Resp500}) => log' = log + 1]_vars

\* The notification the request is to create for its record, sent.
ExpectedNotification(r) ==
    [action_user |-> inst[r].user_id,
     recipient |-> inst[r].user_id,
     status |-> inst[r].status,
     item |-> inst[r].pk,
     notification_type |-> "IDENTITY_VERIFICATION_UPDATED",
     sent |-> TRUE]

\* Request r has created and sent its notification.
Notified(r) ==
    /\ inst[r] # NoRow
    /\ \/ pc[r] = "risk"
       \/ pc[r] = "done" /\ exc[r] \in {"", "RiskScoreError"}

\* Request r has called the risk scoring.
Scored(r) ==
    inst[r] # NoRow /\ pc[r] = "done" /\ exc[r] \in {"", "RiskScoreError"}

\* The notifications that were sent.
SentNotifications == {n \in BagToSet(notifications) : n.sent}

\* The requests whose header holds the HMAC of its timestamp and the body.
AuthenticRequests == {q \in Requests : Authentic(q.hdr, q.body)}

\* Request r is one of them.
Authenticated(r) == [hdr |-> hdr[r], body |-> body[r]] \in AuthenticRequests

\* Sent notifications and risk-scoring calls are one per request that got
\* that far.
OnePerRequest ==
    /\ \A n \in SentNotifications :
          CopiesIn(n, notifications) =
             Cardinality({r \in Reqs : Notified(r) /\ ExpectedNotification(r) = n})
    /\ \A r \in Reqs : Notified(r) => BagIn(ExpectedNotification(r), notifications)
    /\ \A u \in Users :
          riskCalls[u] = Cardinality({r \in Reqs : Scored(r) /\ inst[r].user_id = u})

\* C15: a request is answered 200 in the step that calls the risk scoring
\* once for its user, after its signature was validated, its record was
\* upserted and its notification, carrying the record's status, was created
\* and sent; a request whose signature did not validate writes nothing; the
\* sent notifications are one per request that got that far, so n
\* deliveries of one payload send n notifications.
C15_StepOrder ==
    /\ []OnePerRequest
    /\ [][\A r \in Reqs :
            /\ (pc'[r] # pc[r] /\ ~Authenticated(r)') => NothingApplied
            /\ (pc[r] = "notify" /\ pc'[r] # "notify")
               => (/\ inst[r] # NoRow
                   /\ BagCardinality(notifications') <= BagCardinality(notifications) + 1
                   /\ riskCalls' = riskCalls)
            /\ (Returns(r) /\ resp'[r] = Resp200)
               => (/\ Authenticated(r)
                   /\ Notified(r)
                   /\ BagIn(ExpectedNotification(r), notifications)
                   /\ notifications' = notifications
                   /\ riskCalls' = [riskCalls EXCEPT ![inst[r].user_id] = @ + 1])]_vars

\* Two deliveries of the same payload were answered 200 and two equal
\* notifications were sent.
C15_Witness ==
    \E r1, r2 \in Reqs :
        /\ r1 # r2
        /\ body[r1] = body[r2]
        /\ resp[r1] = Resp200 /\ resp[r2] = Resp200
        /\ inst[r1] = inst[r2]
        /\ CopiesIn(ExpectedNotification(r1), notifications) = 2
        /\ riskCalls[inst[r1].user_id] = 2

\* The value at a dotted path of a tree: walk[i] is the value after i keys,
\* Absent as soon as a value on the way is not an object holding the key.
ValueAt(data, path) ==
    LET walk[i \in 0..Len(path)] ==
            IF i = 0 THEN data
            ELSE IF walk[i - 1] # Absent /\ walk[i - 1].k = "obj"
                    /\ path[i] \in DOMAIN walk[i - 1].m
                 THEN walk[i - 1].m[path[i]]
                 ELSE Absent
    IN  IF walk[Len(path)] = Absent THEN None ELSE walk[Len(path)]

\* C12: the extraction does not fail on any parsed tree, and each of the
\* five lookups gives the value at its path, or the absent default (None)
\* where a key is missing or a value on the way is no object.
C12_ExtractionTolerant ==
    extracted # NotExtracted =>
        /\ extracted.raised = ""
        /\ extracted.reference_id = ValueAt(tree, ReferenceIdPath)
        /\ extracted.first_name = ValueAt(tree, NameFirstPath)
        /\ extracted.last_name = ValueAt(tree, NameLastPath)
        /\ extracted.inquiry_id = ValueAt(tree, InquiryIdPath)
        /\ ValueAt(tree, StatusPath).k = "str"
           => extracted.persona_status = Lower(ValueAt(tree, StatusPath).s)

\* A save or delete runs, with its signal handler, in this step.
HandlerRuns == ops' = ops + 1

\* The refresh task for feed row i.
ExpectedTask(i) == [task |-> "refresh_feed_entry", args |-> <<i>>, priority |-> 1]

FeedEntryIds == {e.id : e \in AllFeedEntries}

\* Number of times t stands in a list of tasks.
TimesIn(t, tasks) == Cardinality({k \in DOMAIN tasks : tasks[k] = t})

\* The callback registered in this step, if any.
Registered == IF Len(pending') > Len(pending) THEN <<pending'[Len(pending')]>> ELSE <<>>

\* How often this step schedules task t: hands it to the queue, or registers
\* it for the commit.
ScheduledNow(t) ==
    (CopiesIn(t, queue') - CopiesIn(t, queue))
    + (IF Registered = <<>> THEN 0 ELSE TimesIn(t, Registered[1].tasks))

\* Every task in the queue or registered is a refresh task of priority 1.
OnlyRefreshTasks ==
    /\ \A t \in BagToSet(queue') : \E i \in FeedEntryIds : t = ExpectedTask(i)
    /\ \A k \in DOMAIN pending' : \A j \in DOMAIN pending'[k].tasks :
          \E i \in FeedEntryIds : pending'[k].tasks[j] = ExpectedTask(i)

MatchedBy(i, callbacks) ==
    Cardinality({k \in DOMAIN callbacks : i \in callbacks[k].matched})

\* C16: tasks reach the queue only in a step that leaves nothing
\* uncommitted; a handler that runs inside a transaction enqueues nothing;
\* the commit enqueues, for every callback registered in the transaction,
\* the rows that matched when its signal fired; a rollback enqueues nothing
\* and drops the callbacks, so that none of their tasks is enqueued later.
C16_BoundToCommit ==
    [][/\ (queue' # queue) => (conn' = "auto" /\ durable' = table')
       /\ (HandlerRuns /\ conn' # "auto") => queue' = queue
       /\ (last'.outcome = "committed" /\ conn # "auto" /\ conn' = "auto")
          => (/\ \A i \in FeedEntryIds :
                    CopiesIn(ExpectedTask(i), queue')
                    = CopiesIn(ExpectedTask(i), queue) + MatchedBy(i, pending)
              /\ durable' = table)
       /\ (last'.outcome = "rolled_back" /\ conn # "auto" /\ conn' = "auto")
          => (queue' = queue /\ table' = durable)
       /\ (conn' = "auto") => pending' = <<>>
       /\ OnlyRefreshTasks]_vars

\* A transaction committed after the feed rows had changed under a callback
\* it ran: the queue holds the rows matched when the signal fired.
C16_Witness ==
    /\ last.outcome = "committed"
    /\ Len(last.ran) = 1
    /\ last.ran[1].matched # AffectedIds(last.ran[1].instance, last.entries)
    /\ last.ran[1].matched # {}
    /\ \A i \in FeedEntryIds :
          CopiesIn(ExpectedTask(i), queue) = IF i \in last.ran[1].matched THEN 1 ELSE 0

\* The row of the instance is there after a save, gone after a delete.
MutationStands ==
    IF last'.handler = "refresh_feed_entries_on_grant_application_delete"
    THEN RowKey(last'.instance) \notin table'
    ELSE /\ RowKey(last'.instance) \in table'
         /\ conn = "auto" => RowKey(last'.instance) \in durable'

====
